---------------------------- MODULE Spec2Model ----------------------------
(***************************************************************************)
(* tldns: a DNS-over-TLS terminating proxy (src/tldns/server.py).          *)
(*                                                                         *)
(* The model has one listener (DNSOverTLSServer.start) and one handler     *)
(* thread per accepted connection (DNSOverTLSServer.handle_client).  Byte  *)
(* strings are sequences of naturals below 256.  The TLS stream of a       *)
(* connection is the byte sequence its client sends; every recv returns a  *)
(* non-empty chunk of what is in flight, of any size up to the size asked  *)
(* for, or the empty string once the peer has closed, or raises.           *)
(*                                                                         *)
(* DNS messages are kept short: a message on the wire is                   *)
(*     << id, flags, question >> \o answer                                 *)
(* with the response bit QR = 128 and the result code in the low four bits *)
(* of the flags byte.  dnspython's strict parser accepts a byte string     *)
(* exactly when it holds a header and a question and nothing it cannot     *)
(* parse after them (JunkByte stands for trailing junk).                   *)
(***************************************************************************)
EXTENDS Naturals, Sequences, FiniteSets

\* ------------------------------------------------------------------ bounds

NConn == 2          \* connections the listener can accept in one run
MaxFrames == 2      \* frames a client puts into its stream
MaxPartial == 2     \* the sizes 1..MaxPartial of a short write by send

\* ------------------------------------------------------ program constants

ByteBase == 256     \* one byte: int.from_bytes / int.to_bytes
LenBytes == 2       \* recv(2), to_bytes(2, ...)
MaxU16 == 65535     \* the largest value to_bytes(2, "big") encodes
QR == 128           \* dns.flags.QR in the flags byte of this wire format
SERVFAIL == 2       \* dns.rcode.SERVFAIL
NOERROR == 0        \* dns.rcode.NOERROR
HeaderLen == 2      \* id and flags
JunkByte == 255     \* a byte the strict parser cannot parse after the question

Conns == 1..NConn

\* ---------------------------------------------------------- byte strings

Take(s, k) == SubSeq(s, 1, k)
Drop(s, k) == SubSeq(s, k + 1, Len(s))
Min(a, b) == IF a < b THEN a ELSE b

\* a decoder that takes the low byte first
from_bytes_Little(b) == b[2] * ByteBase + b[1]

\* int.from_bytes(length_data, byteorder="big") on two bytes
from_bytes(b) == b[1] * ByteBase + b[2]

\* an encoder of fixed width that never refuses a length
to_bytes_raises_Never(n) == FALSE

\* len(response_data).to_bytes(2, byteorder="big") raises OverflowError
to_bytes_raises(n) == n > MaxU16

\* len(response_data).to_bytes(2, byteorder="big")
to_bytes(n) == << n \div ByteBase, n % ByteBase >>

\* ------------------------------------------------------------- DNS codec

\* dns.message.from_wire raises on this byte string
from_wire_raises(w) ==
    \/ Len(w) < HeaderLen + 1
    \/ \E i \in (HeaderLen + 2)..Len(w) : w[i] = JunkByte

\* dns.message.from_wire
from_wire(w) ==
    [id       |-> w[1],
     qr       |-> w[2] \div QR,
     rcode    |-> w[2] % 16,
     question |-> w[3],
     answer   |-> Drop(w, HeaderLen + 1)]

\* Message.to_wire
to_wire(m) == << m.id, m.qr * QR + m.rcode, m.question >> \o m.answer

\* dns.message.make_response raises FormError: the message is not a query
make_response_raises(q) == q.qr = 1

\* dns.message.make_response
make_response(q) ==
    [id |-> q.id, qr |-> 1, rcode |-> NOERROR, question |-> q.question,
     answer |-> << >>]

\* Message.set_rcode
set_rcode(m, rc) == [m EXCEPT !.rcode = rc]

\* DNSOverTLSServer.create_error_response
create_error_response(query_data) ==
    IF from_wire_raises(query_data) THEN << >>
    ELSE IF make_response_raises(from_wire(query_data)) THEN << >>
    ELSE to_wire(set_rcode(make_response(from_wire(query_data)), SERVFAIL))


\* --------------------------------------------------------------- upstream

\* what dns.query.udp(query, upstream_dns, timeout=5) can do: return a
\* response, raise Timeout, or raise anything else (a socket error, or
\* BadResponse for a datagram that does not answer the query)
UpstreamOutcomes == {"answer", "timeout", "neterror"}

\* the answer sections the resolver may put into a response
Answers == { << 5 >> }

\* the message dns.query.udp returns: it accepts only a response to the query
\* (same id, same question, QR set)
udp_response(q, a) ==
    [id |-> q.id, qr |-> 1, rcode |-> NOERROR, question |-> q.question,
     answer |-> a]

\* what dns.query.udp hands back to forward_dns_query, as the bytes line 77
\* makes of it; nothing when it raised
upstream_reply(query_data, outcome, a) ==
    IF ~from_wire_raises(query_data) /\ outcome = "answer"
    THEN to_wire(udp_response(from_wire(query_data), a))
    ELSE << >>

\* a forwarder that builds its own response and leaves the answer out
forward_dns_query_Rebuilt(query_data, outcome, a) ==
    IF from_wire_raises(query_data) THEN create_error_response(query_data)
    ELSE IF outcome = "answer" THEN to_wire(make_response(from_wire(query_data)))
    ELSE create_error_response(query_data)

\* a forwarder that answers a failure with b"" itself
forward_dns_query_NoFallback(query_data, outcome, a) ==
    IF from_wire_raises(query_data) THEN << >>
    ELSE IF outcome = "answer" THEN to_wire(udp_response(from_wire(query_data), a))
    ELSE << >>

\* DNSOverTLSServer.forward_dns_query, once the upstream outcome is known
forward_dns_query(query_data, outcome, a) ==
    IF from_wire_raises(query_data) THEN create_error_response(query_data)
    ELSE IF outcome = "answer" THEN to_wire(udp_response(from_wire(query_data), a))
    ELSE create_error_response(query_data)

\* ---------------------------------------------------------------- clients

\* the 2-byte big-endian length prefix of the framing protocol
BE16(n) == << n \div 256, n % 256 >>

\* one frame as a client sends it
Frame(p) == BE16(Len(p)) \o p

Q1 == << 1, 0, 7 >>             \* a query, id 1
Q2 == << 2, 0, 7 >>             \* a query, id 2
QRm == << 3, 128, 7 >>          \* decodes, but is a response (QR set), id 3
Junk == << 4, 0, 7, 255 >>      \* id and question readable, then trailing junk
NoHeader == << >>               \* a zero-length frame: no header to read

Payloads == { Q1, QRm, Junk, NoHeader }

\* the streams of the runs with several clients: one query, or one cut short
ConcStreams == { Frame(Q1), Frame(Q2), Take(Frame(Q1), 3) }

\* a prefix that declares 256 payload bytes, followed by three bytes
LongDeclared == << 1, 0, 1, 0, 7 >>

\* a whole frame, then a frame cut inside its payload
CutSecond == Frame(Q1) \o Take(Frame(Q2), 4)

RECURSIVE Flatten(_)
Flatten(fs) == IF fs = << >> THEN << >> ELSE Frame(Head(fs)) \o Flatten(Tail(fs))

FrameSeqs == UNION { [1..n -> Payloads] : n \in 0..MaxFrames }

\* what a client may send before it stops: whole frames, or a stream cut
\* anywhere
Streams ==
    { Flatten(fs) : fs \in FrameSeqs }
      \cup UNION { { Take(Frame(p), k) : k \in 0..Len(Frame(p)) } : p \in Payloads }
      \cup { LongDeclared, CutSecond }

\* the longest payload a client sends, and the longest frame a handler writes
MaxPayload == 4
MaxFrameLen == 6

\* the frames a byte stream holds, by the framing protocol
RECURSIVE ParseFrames(_)
ParseFrames(s) ==
    IF Len(s) < 2 THEN << >>
    ELSE LET L == s[1] * 256 + s[2]
         IN  IF Len(s) - 2 < L THEN << >>
             ELSE << SubSeq(s, 3, 2 + L) >> \o ParseFrames(Drop(s, 2 + L))


\* ------------------------------------------------------------------ state

VARIABLES
    lpc,            \* where start() is: "init", "accept", "wrap", "spawn", or ended:
                    \* "failed", "stopped", "crashed"
    lcur,           \* the connection start() holds between accept and thread start
    pc,             \* per connection: where it, or its handler, is
    stream,         \* per connection: everything its client sends
    inbuf,          \* per connection: bytes sent and not yet read by recv
    peerClosed,     \* per connection: the client has closed its side
    hello,          \* per connection: the client has done its part of the handshake
    query_length,   \* handle_client's local
    query_data,     \* handle_client's local
    query_count,    \* handle_client's local
    response_data,  \* handle_client's local
    fwdLog,         \* per connection: the arguments of its forward_dns_query calls
    resLog,         \* per connection: [query, outcome, reply, result] of each returned call
    upstreamReqs,   \* per connection: dns.query.udp calls made
    sendLog,        \* per connection: the arguments of its ssl_sock.send calls
    wire,           \* per connection: the bytes delivered to its peer
    closeCount,     \* per connection: ssl_sock.close() calls
    exitPath,       \* per connection: what ended the handler's loop
    segs,           \* per connection: payload reads made for the frame in hand
    rawCloses,      \* per connection: client_sock.close() calls by start()
    halt,           \* what ended start(): "none" while it runs
    spawned,        \* per connection: handler threads started for it
    ctxBuilds,      \* create_ssl_context calls made
    context,        \* start()'s local: the context built, 0 before there is one
    wrapCtx,        \* per connection: the context its handshake ran under, 0 = none
    listenSock,     \* the listening socket: "none", "listening", "closed"
    lenIn,          \* length round trip: the length to encode
    lenBytes,       \* length round trip: its prefix
    lenOut,         \* length round trip: the length decoded from the prefix
    lenPc           \* length round trip: "idle", "start", "encoded", "decoded", "raised"

vars == << lpc, lcur, pc, stream, inbuf, peerClosed, hello, query_length, query_data,
           query_count, response_data, fwdLog, resLog, upstreamReqs, sendLog,
           wire, closeCount, exitPath, segs, rawCloses, halt, spawned, ctxBuilds,
           context, wrapCtx, listenSock, lenIn, lenBytes, lenOut, lenPc >>

lenVars == << lenIn, lenBytes, lenOut, lenPc >>
listenerVars == << lpc, lcur, rawCloses, halt, spawned, ctxBuilds, context, wrapCtx,
                   listenSock >>
clientVars == << stream, inbuf, peerClosed, hello >>
localVars == << query_length, query_data, query_count, response_data >>
logVars == << fwdLog, resLog, upstreamReqs, sendLog, wire >>
endVars == << closeCount, exitPath >>
handlerVars == << pc, clientVars, localVars, logVars, endVars, segs >>

HandlerPcs == {"await_length", "await_payload", "forward", "upstream", "respond",
               "finally", "closed"}

\* a handler thread that has not returned
RunningPcs == HandlerPcs \ {"closed"}

\* start() is inside its `while True`
LoopPcs == {"accept", "wrap", "spawn"}

\* the server before start() runs
ServerInit ==
    /\ lpc = "init"
    /\ lcur = 0
    /\ pc = [c \in Conns |-> "idle"]
    /\ stream = [c \in Conns |-> << >>]
    /\ inbuf = [c \in Conns |-> << >>]
    /\ peerClosed = [c \in Conns |-> FALSE]
    /\ hello = [c \in Conns |-> FALSE]
    /\ query_length = [c \in Conns |-> 0]
    /\ query_data = [c \in Conns |-> << >>]
    /\ query_count = [c \in Conns |-> 0]
    /\ response_data = [c \in Conns |-> << >>]
    /\ fwdLog = [c \in Conns |-> << >>]
    /\ resLog = [c \in Conns |-> << >>]
    /\ upstreamReqs = [c \in Conns |-> 0]
    /\ sendLog = [c \in Conns |-> << >>]
    /\ wire = [c \in Conns |-> << >>]
    /\ closeCount = [c \in Conns |-> 0]
    /\ exitPath = [c \in Conns |-> "none"]
    /\ segs = [c \in Conns |-> 0]
    /\ rawCloses = [c \in Conns |-> 0]
    /\ halt = "none"
    /\ spawned = [c \in Conns |-> 0]
    /\ ctxBuilds = 0
    /\ context = 0
    /\ wrapCtx = [c \in Conns |-> 0]
    /\ listenSock = "none"

Init ==
    /\ ServerInit
    /\ lenIn = 0
    /\ lenBytes = << >>
    /\ lenOut = 0
    /\ lenPc = "idle"

\* --------------------------------------------------------------- listener

\* start(): context = self.create_ssl_context(), then bind and listen
CreateContextOk ==
    /\ lpc = "init"
    /\ lpc' = "accept"
    /\ ctxBuilds' = ctxBuilds + 1
    /\ context' = ctxBuilds + 1
    /\ listenSock' = "listening"
    /\ UNCHANGED << lcur, rawCloses, halt, spawned, wrapCtx, handlerVars, lenVars >>

\* create_ssl_context re-raises: start() ends before it binds or listens
CreateContextFails ==
    /\ lpc = "init"
    /\ lpc' = "failed"
    /\ ctxBuilds' = ctxBuilds + 1
    /\ halt' = "context_error"
    /\ UNCHANGED << lcur, rawCloses, spawned, context, wrapCtx, listenSock,
                    handlerVars, lenVars >>

\* client_sock, addr = sock.accept(); the client's bytes are in flight
Accept(c, s) ==
    /\ lpc = "accept"
    /\ pc[c] = "idle"
    /\ lpc' = "wrap"
    /\ lcur' = c
    /\ pc' = [pc EXCEPT ![c] = "raw"]
    /\ stream' = [stream EXCEPT ![c] = s]
    /\ inbuf' = [inbuf EXCEPT ![c] = s]
    /\ UNCHANGED << rawCloses, halt, spawned, ctxBuilds, context, wrapCtx, listenSock,
                    peerClosed, hello, localVars, logVars, endVars, segs, lenVars >>

\* sock.accept() raises OSError (no descriptor left, a connection aborted in
\* the queue): `except KeyboardInterrupt` does not catch it, the with block
\* closes the listening socket and the exception leaves start()
AcceptRaises ==
    /\ lpc = "accept"
    /\ lpc' = "crashed"
    /\ halt' = "accept_error"
    /\ listenSock' = "closed"
    /\ UNCHANGED << lcur, rawCloses, spawned, ctxBuilds, context, wrapCtx,
                    handlerVars, lenVars >>

\* a listener that builds a context for each connection
WrapContext_Fresh == context + 1

\* the context the handshake runs under: start()'s local, line 170
WrapContext == context

\* context.wrap_socket(client_sock, server_side=True) returns.  The call does
\* the handshake (do_handshake_on_connect) on a socket without a timeout: it
\* returns or raises only after the client has sent its part
WrapOk ==
    /\ lpc = "wrap"
    /\ hello[lcur]
    /\ lpc' = "spawn"
    /\ pc' = [pc EXCEPT ![lcur] = "wrapped"]
    /\ wrapCtx' = [wrapCtx EXCEPT ![lcur] = WrapContext]
    /\ UNCHANGED << lcur, rawCloses, halt, spawned, ctxBuilds, context, listenSock,
                    clientVars, localVars, logVars, endVars, segs, lenVars >>

\* a listener whose handshake failure leaves the loop
AfterWrapFails_Propagate == "crashed"

\* where the except clause of line 173 leads: `continue`
AfterWrapFails == "accept"

\* wrap_socket raises, on what the client sent or on its close: log,
\* client_sock.close(), continue
WrapFails ==
    /\ lpc = "wrap"
    /\ hello[lcur] \/ peerClosed[lcur]
    /\ lpc' = AfterWrapFails
    /\ pc' = [pc EXCEPT ![lcur] = "rawclosed"]
    /\ rawCloses' = [rawCloses EXCEPT ![lcur] = @ + 1]
    /\ wrapCtx' = [wrapCtx EXCEPT ![lcur] = WrapContext]
    /\ UNCHANGED << lcur, halt, spawned, ctxBuilds, context, listenSock,
                    clientVars, localVars, logVars, endVars, segs, lenVars >>

\* a listener with a pool of one worker
SpawnAllowed_Pool == \A c \in Conns : pc[c] \notin RunningPcs

\* what the thread start of lines 180-184 waits for or checks: nothing
SpawnAllowed == TRUE

\* threading.Thread(target=self.handle_client, args=(ssl_sock, addr)).start()
Spawn ==
    /\ lpc = "spawn"
    /\ SpawnAllowed
    /\ lpc' = "accept"
    /\ pc' = [pc EXCEPT ![lcur] = "await_length"]
    /\ spawned' = [spawned EXCEPT ![lcur] = @ + 1]
    /\ query_count' = [query_count EXCEPT ![lcur] = 0]
    /\ UNCHANGED << lcur, rawCloses, halt, ctxBuilds, context, wrapCtx, listenSock,
                    clientVars, query_length, query_data, response_data, logVars,
                    endVars, segs, lenVars >>

\* a listener that joins its handlers before it returns
ReturnAllowed_Join == \A c \in Conns : pc[c] \notin RunningPcs

\* what start() waits for between the except clause of line 186 and its
\* return: nothing, the handler threads are daemons and are not joined
ReturnAllowed == TRUE

\* KeyboardInterrupt reaches the main thread inside `while True`: the except
\* clause of line 186 logs, the with block closes the listening socket and
\* start() returns
Interrupt ==
    /\ lpc \in LoopPcs
    /\ ReturnAllowed
    /\ lpc' = "stopped"
    /\ halt' = "interrupt"
    /\ listenSock' = "closed"
    /\ UNCHANGED << lcur, rawCloses, spawned, ctxBuilds, context, wrapCtx,
                    handlerVars, lenVars >>

\* ----------------------------------------------------------------- client

\* the client sends what the handshake waits for: a ClientHello, good or bad,
\* or a reset
ClientHello(c) ==
    /\ pc[c] = "raw"
    /\ ~hello[c]
    /\ hello' = [hello EXCEPT ![c] = TRUE]
    /\ UNCHANGED << lenVars, listenerVars, pc, stream, inbuf, peerClosed, localVars,
                    logVars, endVars, segs >>

\* the client closes its side of the stream; the close reaches the server
\* after the bytes sent before it
ClientClose(c) ==
    /\ pc[c] \notin {"idle", "rawclosed"}
    /\ inbuf[c] = << >>
    /\ ~peerClosed[c]
    /\ peerClosed' = [peerClosed EXCEPT ![c] = TRUE]
    /\ UNCHANGED << lenVars, listenerVars, pc, stream, inbuf, hello, localVars, logVars,
                    endVars, segs >>


\* ---------------------------------------------------------------- handler

\* a handler that returns from its loop without the finally block
AfterBreak_SkipFinally == "closed"

\* where `break` and the except clause lead: the finally block (line 141)
AfterBreak == "finally"

\* a handler that forwards after its first payload read, without the loop
AfterPayload_OneRead(qd, L) == "forward"

\* the loop test of line 117 and the check of line 123, after a read
AfterPayload(qd, L) == IF Len(qd) < L THEN "await_payload" ELSE "forward"

\* a handler that asks for a buffer full at each payload read
PayloadRecvSize_Greedy(qd, L) == MaxPayload

\* the size the payload read asks for: recv(query_length - len(query_data))
PayloadRecvSize(qd, L) == L - Len(qd)

\* what line 133 hands to send: response_length + response_data
ResponseFrame(resp) == to_bytes(Len(resp)) \o resp

\* handlers that write to one session kept on the server object
SessionOf_Shared(c) == 1

\* the session the handler writes to: its own ssl_sock
SessionOf(c) == c

\* what ssl_sock.send(frame) may return: all of it, or a short count
SendCounts(frame) == { n \in 1..Len(frame) : n = Len(frame) \/ n <= MaxPartial }

\* where the handler goes after line 133: back to the head of `while True`
AfterSend == "await_length"

\* a handler that goes on to the next frame when the decode fails
AfterDecodeError_SkipRespond == "await_length"

\* a handler that drops the connection when the decode fails
AfterDecodeError_Drop == "finally"

\* where forward_dns_query leaves the handler when from_wire raises: the
\* except clause returns create_error_response, the handler goes on to respond
AfterDecodeError == "respond"

\* a forwarder that asks a second resolver as well
NumRequests_Failover(qd) == IF from_wire_raises(qd) THEN 0 ELSE 2

\* the dns.query.udp calls one forward_dns_query call makes: the one of line
\* 72, which a query that does not decode never reaches
NumRequests(qd) == IF from_wire_raises(qd) THEN 0 ELSE 1

\* a handler that reads again when a recv returns b""
AfterEOF_Ignore(p) == p

\* a handler that forwards what it has when the peer closes inside a payload
AfterEOF_ForwardPartial(p) == IF p = "await_payload" THEN "forward" ELSE AfterBreak

\* where a recv that returns b"" leads: the break of line 103, or the break
\* of line 120 and, the payload being short, the break of line 127
AfterEOF(p) == AfterBreak

\* length_data = ssl_sock.recv(2) returns k bytes in flight
RecvLength(c, k) ==
    /\ pc[c] = "await_length"
    /\ k \in 1..Min(LenBytes, Len(inbuf[c]))
    /\ inbuf' = [inbuf EXCEPT ![c] = Drop(@, k)]
    /\ IF k < LenBytes
       THEN /\ pc' = [pc EXCEPT ![c] = AfterBreak]
            /\ exitPath' = [exitPath EXCEPT ![c] = "short_prefix"]
            /\ UNCHANGED localVars
       ELSE LET L == from_bytes(Take(inbuf[c], k))
                nxt == AfterPayload(<< >>, L)
            IN  /\ query_length' = [query_length EXCEPT ![c] = L]
                /\ query_data' = [query_data EXCEPT ![c] = << >>]
                /\ query_count' = [query_count EXCEPT ![c] =
                                     IF nxt = "forward" THEN @ + 1 ELSE @]
                /\ pc' = [pc EXCEPT ![c] = nxt]
                /\ UNCHANGED << response_data, exitPath >>
    /\ segs' = [segs EXCEPT ![c] = 0]
    /\ UNCHANGED << lenVars, listenerVars, stream, peerClosed, hello, logVars, closeCount >>

\* chunk = ssl_sock.recv(query_length - len(query_data)) returns k bytes
RecvPayload(c, k) ==
    /\ pc[c] = "await_payload"
    /\ k \in 1..Min(PayloadRecvSize(query_data[c], query_length[c]), Len(inbuf[c]))
    /\ inbuf' = [inbuf EXCEPT ![c] = Drop(@, k)]
    /\ LET qd == query_data[c] \o Take(inbuf[c], k)
           nxt == AfterPayload(qd, query_length[c])
       IN  /\ query_data' = [query_data EXCEPT ![c] = qd]
           /\ query_count' = [query_count EXCEPT ![c] =
                                IF nxt = "forward" THEN @ + 1 ELSE @]
           /\ pc' = [pc EXCEPT ![c] = nxt]
    /\ segs' = [segs EXCEPT ![c] = @ + 1]
    /\ UNCHANGED << lenVars, listenerVars, stream, peerClosed, hello, query_length, response_data,
                    logVars, endVars >>

\* a recv returns b"": the peer has closed and nothing is in flight.  At the
\* length prefix this is the break of line 103; in the payload loop the break
\* of line 120 and then, the payload being short, the break of line 127
RecvEOF(c) ==
    /\ pc[c] \in {"await_length", "await_payload"}
    /\ inbuf[c] = << >>
    /\ peerClosed[c]
    /\ pc' = [pc EXCEPT ![c] = AfterEOF(pc[c])]
    /\ exitPath' = [exitPath EXCEPT ![c] =
                       IF pc[c] = "await_length" THEN "eof" ELSE "short_payload"]
    /\ segs' = [segs EXCEPT ![c] = 0]
    /\ UNCHANGED << lenVars, listenerVars, clientVars, localVars, logVars, closeCount >>

\* a recv raises (a reset, a TLS error): the except clause of line 139
RecvRaises(c) ==
    /\ pc[c] \in {"await_length", "await_payload"}
    /\ pc' = [pc EXCEPT ![c] = AfterBreak]
    /\ exitPath' = [exitPath EXCEPT ![c] = "recv_error"]
    /\ segs' = [segs EXCEPT ![c] = 0]
    /\ UNCHANGED << lenVars, listenerVars, clientVars, localVars, logVars, closeCount >>

\* response_data = self.forward_dns_query(query_data): the call, up to the
\* decode.  A query that decodes is sent upstream, one that does not is
\* answered by create_error_response at once
ForwardCall(c) ==
    /\ pc[c] = "forward"
    /\ fwdLog' = [fwdLog EXCEPT ![c] = Append(@, query_data[c])]
    /\ IF from_wire_raises(query_data[c])
       THEN LET r == forward_dns_query(query_data[c], "decode_error", << >>)
            IN  /\ pc' = [pc EXCEPT ![c] = AfterDecodeError]
                /\ response_data' = [response_data EXCEPT ![c] = r]
                /\ resLog' = [resLog EXCEPT ![c] = Append(@,
                       [query |-> query_data[c], outcome |-> "decode_error",
                        reply |-> upstream_reply(query_data[c], "decode_error", << >>),
                        result |-> r])]
       ELSE /\ pc' = [pc EXCEPT ![c] = "upstream"]
            /\ UNCHANGED << response_data, resLog >>
    /\ upstreamReqs' = [upstreamReqs EXCEPT ![c] = @ + NumRequests(query_data[c])]
    /\ UNCHANGED << lenVars, listenerVars, clientVars, query_length, query_data, query_count,
                    sendLog, wire, endVars, segs >>

\* a handler that gives up the query when its client has gone
AfterUpstream_Cancel(gone) == IF gone THEN AfterBreak ELSE "respond"

\* where the handler goes when forward_dns_query returns: line 132, whatever
\* the client has done meanwhile
AfterUpstream(gone) == "respond"

\* dns.query.udp returns or raises, and forward_dns_query returns
UpstreamReturn(c, outcome, a) ==
    /\ pc[c] = "upstream"
    /\ LET r == forward_dns_query(query_data[c], outcome, a)
       IN  /\ response_data' = [response_data EXCEPT ![c] = r]
           /\ resLog' = [resLog EXCEPT ![c] = Append(@,
                  [query |-> query_data[c], outcome |-> outcome,
                   reply |-> upstream_reply(query_data[c], outcome, a),
                   result |-> r])]
    /\ pc' = [pc EXCEPT ![c] = AfterUpstream(peerClosed[c])]
    /\ UNCHANGED << lenVars, listenerVars, clientVars, query_length, query_data, query_count,
                    fwdLog, upstreamReqs, sendLog, wire, endVars, segs >>

\* lines 132-133: encode the length, then ssl_sock.send(frame) delivers n bytes
\* and returns n, which the handler does not look at.  A response too long for
\* the prefix raises OverflowError before anything is sent
Respond(c, n) ==
    /\ pc[c] = "respond"
    /\ IF to_bytes_raises(Len(response_data[c]))
       THEN /\ pc' = [pc EXCEPT ![c] = AfterBreak]
            /\ exitPath' = [exitPath EXCEPT ![c] = "overflow"]
            /\ UNCHANGED << sendLog, wire >>
       ELSE LET frame == ResponseFrame(response_data[c])
            IN  /\ n \in SendCounts(frame)
                /\ sendLog' = [sendLog EXCEPT ![c] = Append(@, frame)]
                /\ wire' = [wire EXCEPT ![SessionOf(c)] = @ \o Take(frame, n)]
                /\ pc' = [pc EXCEPT ![c] = AfterSend]
                /\ UNCHANGED exitPath
    /\ segs' = [segs EXCEPT ![c] = 0]
    /\ UNCHANGED << lenVars, listenerVars, clientVars, localVars, fwdLog, resLog,
                    upstreamReqs, closeCount >>

\* ssl_sock.send raises: nothing is delivered, the except clause of line 139
SendRaises(c) ==
    /\ pc[c] = "respond"
    /\ ~to_bytes_raises(Len(response_data[c]))
    /\ sendLog' = [sendLog EXCEPT ![c] = Append(@, ResponseFrame(response_data[c]))]
    /\ pc' = [pc EXCEPT ![c] = AfterBreak]
    /\ exitPath' = [exitPath EXCEPT ![c] = "send_error"]
    /\ segs' = [segs EXCEPT ![c] = 0]
    /\ UNCHANGED << lenVars, listenerVars, clientVars, localVars, fwdLog, resLog,
                    upstreamReqs, wire, closeCount >>

\* handlers that close a socket kept on the server object: the last accepted
CloseTarget_Latest(c) == lcur

\* the socket the finally block closes: the handler's own ssl_sock
CloseTarget(c) == c

\* finally: ssl_sock.close(), and the handler returns
Close(c) ==
    /\ pc[c] = "finally"
    /\ closeCount' = [closeCount EXCEPT ![CloseTarget(c)] = @ + 1]
    /\ pc' = [pc EXCEPT ![c] = "closed"]
    /\ UNCHANGED << lenVars, listenerVars, clientVars, localVars, logVars, exitPath, segs >>

\* ------------------------------------------------------------ specification

\* the steps of a run whose clients are C and send streams of S
NextOver(C, S) ==
    \/ CreateContextOk
    \/ CreateContextFails
    \/ \E c \in C, s \in S : Accept(c, s)
    \/ AcceptRaises
    \/ WrapOk
    \/ WrapFails
    \/ Spawn
    \/ Interrupt
    \/ \E c \in C : ClientHello(c)
    \/ \E c \in C : ClientClose(c)
    \/ \E c \in C, k \in 1..LenBytes : RecvLength(c, k)
    \/ \E c \in C, k \in 1..MaxPayload : RecvPayload(c, k)
    \/ \E c \in C : RecvEOF(c)
    \/ \E c \in C : RecvRaises(c)
    \/ \E c \in C : ForwardCall(c)
    \/ \E c \in C, o \in UpstreamOutcomes, a \in Answers : UpstreamReturn(c, o, a)
    \/ \E c \in C, n \in 1..MaxFrameLen : Respond(c, n)
    \/ \E c \in C : SendRaises(c)
    \/ \E c \in C : Close(c)

\* one client, any stream
Next == NextOver({1}, Streams)

Spec == Init /\ [][Next]_vars

\* every client, each sending one of a few streams
NextConc == NextOver(Conns, ConcStreams)

SpecConc == Init /\ [][NextConc]_vars

\* the streams of the runs with fairness: two frames, a frame cut short, a
\* prefix alone, a declared length never filled, nothing
LiveStreams == { Frame(Q1) \o Frame(Junk), CutSecond, Take(Frame(Q1), 1),
                 LongDeclared, << >> }

NextLive == NextOver({1}, LiveStreams)

\* a handler thread that can take a step is scheduled, and dns.query.udp
\* returns or raises within its timeout of 5 seconds.  Nothing is assumed of
\* the client, of the listener or of errors.
HandlerFair(c) ==
    /\ WF_vars(\E k \in 1..LenBytes : RecvLength(c, k))
    /\ WF_vars(\E k \in 1..MaxPayload : RecvPayload(c, k))
    /\ WF_vars(RecvEOF(c))
    /\ WF_vars(ForwardCall(c))
    /\ WF_vars(\E o \in UpstreamOutcomes, a \in Answers : UpstreamReturn(c, o, a))
    /\ WF_vars(\E n \in 1..MaxFrameLen : Respond(c, n))
    /\ WF_vars(Close(c))

SpecLive == Init /\ [][NextLive]_vars /\ \A c \in Conns : HandlerFair(c)

\* ------------------------------------------- the handler with a stub
\* forward_dns_query replaced by a stub that returns what it is told, as the
\* tests of handle_client do with patch.object

\* a response one byte too long for the prefix
Oversize == [i \in 1..(MaxU16 + 1) |-> 0]

StubResponses == { << 9 >>, Oversize }

StubStreams == { Frame(Q1), Frame(Q1) \o Frame(Q2) }

\* response_data = self.forward_dns_query(query_data), with the stub
ForwardStub(c, r) ==
    /\ pc[c] = "forward"
    /\ fwdLog' = [fwdLog EXCEPT ![c] = Append(@, query_data[c])]
    /\ response_data' = [response_data EXCEPT ![c] = r]
    /\ pc' = [pc EXCEPT ![c] = "respond"]
    /\ UNCHANGED << lenVars, listenerVars, clientVars, query_length, query_data,
                    query_count, resLog, upstreamReqs, sendLog, wire, endVars, segs >>

NextStub ==
    \/ CreateContextOk
    \/ CreateContextFails
    \/ \E s \in StubStreams : Accept(1, s)
    \/ AcceptRaises
    \/ WrapOk
    \/ WrapFails
    \/ Spawn
    \/ Interrupt
    \/ ClientHello(1)
    \/ ClientClose(1)
    \/ \E k \in 1..LenBytes : RecvLength(1, k)
    \/ \E k \in 1..MaxPayload : RecvPayload(1, k)
    \/ RecvEOF(1)
    \/ RecvRaises(1)
    \/ \E r \in StubResponses : ForwardStub(1, r)
    \/ \E n \in 1..MaxFrameLen : Respond(1, n)
    \/ SendRaises(1)
    \/ Close(1)

SpecStub == Init /\ [][NextStub]_vars

\* a client that connects and sends nothing
Silent == << >>

\* the listener with every client silent: the handler steps left out are
\* those that need a byte to read
NextListen ==
    \/ CreateContextOk
    \/ CreateContextFails
    \/ \E c \in Conns : Accept(c, Silent)
    \/ AcceptRaises
    \/ WrapOk
    \/ WrapFails
    \/ Spawn
    \/ Interrupt
    \/ \E c \in Conns : ClientHello(c)
    \/ \E c \in Conns : ClientClose(c)
    \/ \E c \in Conns : RecvEOF(c)
    \/ \E c \in Conns : RecvRaises(c)
    \/ \E c \in Conns : Close(c)

SpecListen == Init /\ [][NextListen]_vars

\* ------------------------------------------------- the length prefix alone

\* the lengths handed to the encoder: all a prefix can hold, and one more
LengthInputs == 0..(MaxU16 + 1)

LenInit ==
    /\ ServerInit
    /\ lenIn \in LengthInputs
    /\ lenBytes = << >>
    /\ lenOut = 0
    /\ lenPc = "start"

\* len(response_data).to_bytes(2, byteorder="big"), line 132
EncodeLength ==
    /\ lenPc = "start"
    /\ IF to_bytes_raises(lenIn)
       THEN /\ lenPc' = "raised"
            /\ UNCHANGED lenBytes
       ELSE /\ lenPc' = "encoded"
            /\ lenBytes' = to_bytes(lenIn)
    /\ UNCHANGED << lenIn, lenOut, listenerVars, handlerVars >>

\* int.from_bytes(length_data, byteorder="big"), line 111
DecodeLength ==
    /\ lenPc = "encoded"
    /\ lenOut' = from_bytes(lenBytes)
    /\ lenPc' = "decoded"
    /\ UNCHANGED << lenIn, lenBytes, listenerVars, handlerVars >>

NextLen == EncodeLength \/ DecodeLength

\* every length, encoded and decoded again
SpecLen == LenInit /\ [][NextLen]_vars


\* ------------------------------------------------------------------ claims

\* the part of its stream a connection's handler has read
Consumed(c) == Take(stream[c], Len(stream[c]) - Len(inbuf[c]))

\* a forward_dns_query call is being made, or its result is not yet written
InProgress(c) == pc[c] \in {"forward", "upstream", "respond"}

\* what ends a connection: end of stream, a framing violation, a socket error
ConnReasons == {"eof", "short_prefix", "short_payload", "recv_error",
                "send_error", "overflow"}

\* resp is a SERVFAIL response that carries the identifier of query q
IsServfailFor(resp, q) ==
    /\ Len(resp) >= HeaderLen + 1
    /\ resp[1] = q[1]
    /\ resp[2] \div QR = 1
    /\ resp[2] % 16 = SERVFAIL

\* w is what a peer got from the writes of frames fs, each delivered in part
\* or whole
RECURSIVE Delivery(_, _)
Delivery(w, fs) ==
    IF fs = << >> THEN w = << >>
    ELSE \E n \in 0..Min(Len(w), Len(Head(fs))) :
            /\ Take(w, n) = Take(Head(fs), n)
            /\ Delivery(Drop(w, n), Tail(fs))

\* C1: for every connection handled by handle_client, the TLS socket is closed
\* exactly once, whichever path ends the handler: a clean end of stream at the
\* length prefix, a short length prefix, a payload cut short, or an exception
\* of a read or a write.  A handler that has ended has closed once, one that
\* runs has not closed, and the loop is left only towards the close.
C1_ClosedExactlyOnce ==
    \A c \in Conns :
        /\ closeCount[c] <= 1
        /\ (pc[c] = "closed") <=> (closeCount[c] = 1)
        /\ (pc[c] \in {"finally", "closed"}) <=> (exitPath[c] \in ConnReasons)

\* C1 witness: a handler ended by a failed write of its second response has
\* closed its socket once
C1_Witness ==
    \E c \in Conns :
        /\ pc[c] = "closed"
        /\ closeCount[c] = 1
        /\ exitPath[c] = "send_error"
        /\ Len(sendLog[c]) = 2

\* C2: every response frame on a session is well-formed: the bytes delivered
\* to the peer are, response after response, a 2-byte big-endian length equal
\* to the length of the response buffer followed by exactly that many response
\* bytes, whatever the write step does.
C2_DeliveredFramesWellFormed ==
    \A c \in Conns :
        LET fs == ParseFrames(wire[c])
        IN  /\ Flatten(fs) = wire[c]
            /\ Len(fs) <= Len(resLog[c])
            /\ \A k \in 1..Len(fs) : fs[k] = resLog[c][k].result

\* C3: the handler calls the Forwarder exactly once per completely received
\* frame, with exactly the L payload bytes of that frame in arrival order,
\* however the payload is cut into reads; it never calls it with a payload
\* whose length is not the declared length.
C3_ForwardOncePerFrame ==
    \A c \in Conns :
        LET frames == ParseFrames(stream[c])
        IN  /\ Len(fwdLog[c]) <= Len(frames)
            /\ \A k \in 1..Len(fwdLog[c]) : fwdLog[c][k] = frames[k]
            /\ query_count[c] = Len(ParseFrames(Consumed(c)))
            /\ Len(fwdLog[c]) =
                  IF pc[c] = "forward" THEN query_count[c] - 1 ELSE query_count[c]
            /\ pc[c] = "forward" => Len(query_data[c]) = query_length[c]

\* C3 witness: the Forwarder is being called with the second frame's payload,
\* which arrived in more than one read
C3_Witness ==
    \E c \in Conns :
        /\ pc[c] = "upstream"
        /\ segs[c] >= 2
        /\ Len(fwdLog[c]) = 2
        /\ fwdLog[c][2] = query_data[c]

\* C4: on one connection queries are processed one at a time and in order:
\* the handler reads a length prefix only when every frame read before has had
\* its response written, at most one Forwarder call is in progress, and the
\* k-th response frame written is the Forwarder's result for the k-th query
\* frame read.
C4_OneAtATimeInOrder ==
    \A c \in Conns :
        /\ pc[c] \in {"await_length", "await_payload"}
              => Len(sendLog[c]) = query_count[c]
        /\ InProgress(c) => Len(sendLog[c]) + 1 = query_count[c]
        /\ Len(fwdLog[c]) = Len(resLog[c]) + (IF pc[c] = "upstream" THEN 1 ELSE 0)
        /\ Len(sendLog[c]) <= Len(resLog[c])
        /\ \A k \in 1..Len(sendLog[c]) :
              /\ sendLog[c][k] = Frame(resLog[c][k].result)
              /\ resLog[c][k].query = ParseFrames(stream[c])[k]

\* C4 witness: two queries of one connection answered, one after the other
C4_Witness ==
    \E c \in Conns :
        /\ pc[c] = "await_length"
        /\ Len(sendLog[c]) = 2
        /\ sendLog[c][1] # sendLog[c][2]

\* C5: with several handlers running in any interleaving, each handler writes
\* only to the session it read the query from: what a peer got is made of the
\* frames its own handler wrote, each response answers a query of the same
\* connection and carries its identifier, and a connection that sent one whole
\* query has had one Forwarder call and one response frame written.
C5_OwnSessionOnly ==
    \A c \in Conns :
        /\ Delivery(wire[c], sendLog[c])
        /\ Len(sendLog[c]) <= Len(fwdLog[c])
        /\ Len(fwdLog[c]) <= Len(ParseFrames(stream[c]))
        /\ \A k \in 1..Len(resLog[c]) :
              /\ resLog[c][k].query = ParseFrames(stream[c])[k]
              /\ resLog[c][k].result # << >>
                    => resLog[c][k].result[1] = resLog[c][k].query[1]
        /\ pc[c] = "await_length"
              => /\ Len(fwdLog[c]) = query_count[c]
                 /\ Len(sendLog[c]) = query_count[c]

\* C5 witness: two connections with different queries, each answered on its
\* own session
C5_Witness ==
    /\ \A c \in Conns : pc[c] = "await_length" /\ Len(sendLog[c]) = 1
    /\ stream[1] # stream[2]
    /\ sendLog[1] # sendLog[2]
    /\ \A c \in Conns : wire[c] = sendLog[c][1]

\* C6: forward_dns_query never raises: every call returns a byte sequence, and
\* when the decode or the upstream request fails the result is that of
\* create_error_response on the original query bytes.
C6_ForwardNeverRaises ==
    \A c \in Conns :
        /\ Len(fwdLog[c]) = Len(resLog[c]) + (IF pc[c] = "upstream" THEN 1 ELSE 0)
        /\ pc[c] = "respond"
              => response_data[c] = resLog[c][Len(resLog[c])].result
        /\ \A k \in 1..Len(resLog[c]) :
              LET r == resLog[c][k]
              IN  /\ r.query = fwdLog[c][k]
                  /\ \A i \in 1..Len(r.result) : r.result[i] \in 0..(ByteBase - 1)
                  /\ r.outcome # "answer" => r.result = create_error_response(r.query)

\* C6 witness: a decode failure and then an upstream timeout, both answered
C6_Witness ==
    \E c \in Conns :
        /\ Len(resLog[c]) = 2
        /\ resLog[c][1].outcome = "decode_error"
        /\ resLog[c][2].outcome = "timeout"
        /\ resLog[c][2].result # << >>

\* C7: when the query decodes and the upstream request times out or fails at
\* the network level, the Forwarder returns a SERVFAIL response with the
\* query's identifier, and the handler writes it as a frame.
C7_TimeoutYieldsServfail ==
    \A c \in Conns :
        \A k \in 1..Len(resLog[c]) :
            LET r == resLog[c][k]
            IN  r.outcome \in {"timeout", "neterror"}
                   => /\ IsServfailFor(r.result, r.query)
                      /\ k <= Len(sendLog[c]) => sendLog[c][k] = Frame(r.result)

\* C8: for query bytes whose identifier and question can be read but which do
\* not decode, the result is a non-empty SERVFAIL message with that identifier
\* and that question, not an empty response.
C8_MalformedYieldsServfail ==
    \A c \in Conns :
        \A k \in 1..Len(resLog[c]) :
            LET r == resLog[c][k]
            IN  (r.outcome = "decode_error" /\ Len(r.query) >= HeaderLen + 1)
                   => /\ IsServfailFor(r.result, r.query)
                      /\ r.result[3] = r.query[3]

\* C9: create_error_response returns the empty byte sequence exactly when its
\* decode of the query bytes fails, and a non-empty SERVFAIL response with the
\* query's identifier when the decode succeeds.
C9_EmptyIffDecodeFails ==
    \A c \in Conns :
        \A k \in 1..Len(resLog[c]) :
            LET r == resLog[c][k]
            IN  r.outcome # "answer"
                   => /\ (r.result = << >>) <=> from_wire_raises(r.query)
                      /\ ~from_wire_raises(r.query) => IsServfailFor(r.result, r.query)

\* C10: no per-query failure closes the connection: a handler ends only by an
\* end of stream, a framing violation or a socket error; for each query,
\* failed or not, it writes one response frame and is back at the length
\* prefix, and the frame for an empty result is the two bytes 0, 0.
C10_QueryFailureKeepsConnection ==
    \A c \in Conns :
        /\ pc[c] \in {"finally", "closed"} => exitPath[c] \in ConnReasons
        /\ pc[c] = "await_length"
              => /\ Len(sendLog[c]) = Len(resLog[c])
                 /\ Len(sendLog[c]) = query_count[c]
                 /\ closeCount[c] = 0
        /\ \A k \in 1..Len(sendLog[c]) :
              /\ k <= Len(resLog[c])
              /\ sendLog[c][k] = Frame(resLog[c][k].result)
              /\ resLog[c][k].result = << >> => sendLog[c][k] = << 0, 0 >>

\* C10 witness: a decode failure answered by the zero-length frame, then an
\* upstream timeout answered, and the handler reading on
C10_Witness ==
    \E c \in Conns :
        /\ pc[c] = "await_length"
        /\ closeCount[c] = 0
        /\ Len(sendLog[c]) = 2
        /\ resLog[c][1].outcome = "decode_error"
        /\ sendLog[c][1] = << 0, 0 >>
        /\ resLog[c][2].outcome = "timeout"

C12_OneRequestPerDecodedQuery ==
    \A c \in Conns :
        /\ upstreamReqs[c] =
               Cardinality({ k \in 1..Len(fwdLog[c]) : ~from_wire_raises(fwdLog[c][k]) })
        /\ upstreamReqs[c] <= Len(fwdLog[c])
        /\ Len(fwdLog[c]) <= query_count[c]
        /\ query_count[c] <= Len(ParseFrames(Consumed(c)))

C12_Witness ==
    \E c \in Conns :
        /\ Len(resLog[c]) = 2
        /\ resLog[c][1].outcome = "timeout"
        /\ resLog[c][2].outcome = "decode_error"
        /\ upstreamReqs[c] = 1

\* C13: when the peer closes, the handler goes to its end without a
\* forward_dns_query call for a frame that is not whole and without another
\* write.  A b"" at the length prefix ends a stream of whole frames; a b""
\* inside a payload ends a stream whose last frame is short.  Either way the
\* whole frames before it, and only they, were forwarded and answered.
C13_PeerCloseEndsWithoutForward ==
    \A c \in Conns :
        exitPath[c] \in {"eof", "short_payload"} =>
            /\ pc[c] \in {"finally", "closed"}
            /\ peerClosed[c]
            /\ inbuf[c] = << >>
            /\ fwdLog[c] = ParseFrames(stream[c])
            /\ Len(sendLog[c]) = Len(fwdLog[c])
            /\ (exitPath[c] = "eof") = (Flatten(fwdLog[c]) = stream[c])
            /\ exitPath[c] = "short_payload" => Len(query_data[c]) < query_length[c]

C13_Witness ==
    \E c \in Conns :
        /\ exitPath[c] = "short_payload"
        /\ pc[c] = "closed"
        /\ stream[c] = CutSecond
        /\ query_data[c] # << >>
        /\ fwdLog[c] = << Q1 >>
        /\ Len(sendLog[c]) = 1

\* C14: a handler that leaves its loop for a short length prefix has read
\* one byte of it and no further byte follows: a prefix whose two bytes come
\* in two segments is still decoded.
C14_SplitPrefixStillDecoded ==
    \A c \in Conns : exitPath[c] = "short_prefix" => inbuf[c] = << >>

\* C15: when a handshake fails the listener closes the raw connection once,
\* starts no handler for it, and goes on accepting: the failure does not end
\* start(), and the next connection is accepted.
C15_HandshakeFailureHandled ==
    /\ lpc = "crashed" => halt = "accept_error"
    /\ \A c \in Conns :
        /\ rawCloses[c] <= 1
        /\ (pc[c] = "rawclosed") = (rawCloses[c] = 1)
        /\ pc[c] = "rawclosed" =>
              /\ spawned[c] = 0
              /\ closeCount[c] = 0
              /\ fwdLog[c] = << >>
              /\ sendLog[c] = << >>
              /\ (lcur = c /\ halt = "none") => lpc = "accept"

C15_Witness ==
    \E c, d \in Conns :
        /\ c # d
        /\ pc[c] = "rawclosed"
        /\ lcur = d
        /\ spawned[d] = 1
        /\ pc[d] \in RunningPcs

C17_OneContextForAll ==
    /\ ctxBuilds <= 1
    /\ lpc # "init" => ctxBuilds = 1
    /\ (lpc = "failed") = (halt = "context_error")
    /\ \A c \in Conns :
        pc[c] \notin {"idle", "raw"} => (context = 1 /\ wrapCtx[c] = context)
    /\ lpc = "failed" =>
          /\ context = 0
          /\ listenSock = "none"
          /\ \A c \in Conns : pc[c] = "idle" /\ spawned[c] = 0 /\ wrapCtx[c] = 0

C17_Witness ==
    /\ ctxBuilds = 1
    /\ \A c \in Conns : wrapCtx[c] = 1
    /\ \E c \in Conns : pc[c] = "rawclosed"
    /\ \E c \in Conns : pc[c] = "closed"

\* C18: once start() is in its loop, only an interrupt ends it: when start()
\* has left the loop, an interrupt is what ended it.
C18_OnlyInterruptHalts ==
    (context # 0 /\ lpc \notin LoopPcs) => halt = "interrupt"

\* C19: an interrupt inside the loop ends start() by a normal return, with
\* the listening socket closed; it takes effect in every state of the loop,
\* whatever the handlers are doing, and start() waits for none of them.
C19_InterruptStopsCleanly ==
    /\ (halt = "interrupt") = (lpc = "stopped")
    /\ lpc = "stopped" => listenSock = "closed"
    /\ lpc \in LoopPcs => (listenSock = "listening" /\ ENABLED Interrupt)

C19_Witness ==
    /\ lpc = "stopped"
    /\ listenSock = "closed"
    /\ \E c \in Conns : pc[c] = "upstream" /\ closeCount[c] = 0

\* C20: every length from 0 to 65535 is encoded as two bytes, and decoding
\* them gives the length back.
C20_LengthRoundTrip ==
    /\ lenPc = "raised" => lenIn > MaxU16
    /\ lenPc \in {"encoded", "decoded"} =>
          /\ Len(lenBytes) = LenBytes
          /\ \A i \in 1..LenBytes : lenBytes[i] \in 0..(ByteBase - 1)
    /\ lenPc = "decoded" => lenOut = lenIn

C20_Witness ==
    /\ lenPc = "decoded"
    /\ lenIn = MaxU16
    /\ lenBytes = << 255, 255 >>
    /\ lenOut = MaxU16

\* all that belongs to one connection: its socket, its pending data, the
\* framing state and the history of its handler
ConnState(d) ==
    << pc[d], stream[d], inbuf[d], peerClosed[d], hello[d], query_length[d],
       query_data[d], query_count[d], response_data[d], fwdLog[d], resLog[d],
       upstreamReqs[d], sendLog[d], wire[d], closeCount[d], exitPath[d],
       rawCloses[d], spawned[d] >>

\* a step in which connection c fails or is torn down
EndsIn(c) ==
    /\ pc'[c] # pc[c]
    /\ pc'[c] \in {"rawclosed", "finally", "closed"}

\* C21: a step in which one connection fails or is closed (a failed
\* handshake, a framing violation, a socket error, the close itself) changes
\* nothing of any other connection, and leaves the listener accepting: a
\* failed handshake takes it back to accept, a handler's end does not touch it.
C21_FailureIsolated ==
    [][ \A c \in Conns :
          EndsIn(c) =>
            /\ \A d \in Conns \ {c} : ConnState(d)' = ConnState(d)
            /\ halt' = halt /\ listenSock' = listenSock
            /\ IF pc'[c] = "rawclosed" THEN lpc' = "accept" ELSE lpc' = lpc ]_vars

C21_Witness ==
    \E c, d \in Conns :
        /\ c # d
        /\ pc[c] = "closed"
        /\ exitPath[c] \in {"short_prefix", "recv_error"}
        /\ pc[d] = "await_payload"
        /\ query_data[d] # << >>
        /\ closeCount[d] = 0
        /\ lpc = "accept"

\* the listener has a step of its own to take
ListenerStep ==
    \/ \E c \in Conns : Accept(c, Silent)
    \/ WrapOk
    \/ WrapFails
    \/ Spawn

\* C22: while start() is in its loop and a client is waiting to connect, the
\* listener can go on by itself: it is never held up by a step of a
\* connection it has already taken, such as a handshake waiting for the peer.
C22_NothingBlocksAccept ==
    (lpc \in LoopPcs /\ \E c \in Conns : pc[c] = "idle") => ENABLED ListenerStep

C24_QueriesAndHandlersFinish ==
    \A c \in Conns :
        /\ (pc[c] = "forward") ~>
              \/ pc[c] = "await_length" /\ Len(sendLog[c]) = query_count[c]
              \/ pc[c] = "closed"
        /\ (peerClosed[c] /\ pc[c] \in HandlerPcs) ~> (pc[c] = "closed")

C24_Witness ==
    \E c \in Conns :
        /\ stream[c] = Frame(Q1) \o Frame(Junk)
        /\ peerClosed[c]
        /\ pc[c] = "closed"
        /\ Len(sendLog[c]) = 2
        /\ exitPath[c] = "eof"

\* C25: a connection accept has returned is closed by the listener after a
\* failed handshake, or has been handed to a handler thread, or is the one
\* the running listener has in hand on its way to one of the two: whatever
\* ends start(), no connection is left with neither.
C25_EveryConnectionOwned ==
    \A c \in Conns :
        pc[c] # "idle" =>
            \/ rawCloses[c] = 1 /\ spawned[c] = 0
            \/ rawCloses[c] = 0 /\ spawned[c] = 1
            \/ lcur = c /\ lpc \in {"wrap", "spawn"}

\* C26: when forward_dns_query returns more than 65535 bytes nothing of the
\* response is handed to send (send is not reached with it): every frame the
\* handler writes has a two-byte prefix that is the true length of what
\* follows.  The length encoding raises, the except clause takes it, and the
\* handler ends with its socket closed once.
C26_OversizeNeverWritten ==
    \A c \in Conns :
        /\ \A k \in 1..Len(sendLog[c]) :
              LET f == sendLog[c][k]
              IN  /\ Len(f) <= LenBytes + MaxU16
                  /\ f[1] < ByteBase /\ f[2] < ByteBase
                  /\ from_bytes(Take(f, LenBytes)) = Len(f) - LenBytes
        /\ (pc[c] = "respond" /\ Len(response_data[c]) > MaxU16) =>
              ~ENABLED SendRaises(c)
        /\ (exitPath[c] = "overflow") =
              (Len(response_data[c]) > MaxU16 /\ pc[c] # "respond")
        /\ exitPath[c] = "overflow" =>
              /\ pc[c] \in {"finally", "closed"}
              /\ Len(sendLog[c]) = query_count[c] - 1
              /\ closeCount[c] <= 1
              /\ pc[c] = "closed" => closeCount[c] = 1

C26_Witness ==
    \E c \in Conns :
        /\ exitPath[c] = "overflow"
        /\ response_data[c] = Oversize
        /\ query_count[c] = 2
        /\ Len(sendLog[c]) = 1
        /\ pc[c] = "closed"
        /\ closeCount[c] = 1

\* C27: the bytes a handler has taken from its stream are, at every moment,
\* the whole frames it has collected, followed by the prefix and the part of
\* the payload of the frame in hand, never more than that frame holds: what
\* the client has sent beyond it stays in the stream, to be read as the next
\* prefix and payload.
C27_ReadsStayInsideFrame ==
    \A c \in Conns :
        /\ stream[c] = Consumed(c) \o inbuf[c]
        /\ pc[c] = "await_payload" =>
              /\ Len(query_data[c]) < query_length[c]
              /\ Consumed(c) =
                    Flatten(fwdLog[c]) \o to_bytes(query_length[c]) \o query_data[c]
        /\ pc[c] = "forward" =>
              Consumed(c) = Flatten(Append(fwdLog[c], query_data[c]))
        /\ pc[c] \in {"upstream", "respond", "await_length"} =>
              Consumed(c) = Flatten(fwdLog[c])

C27_Witness ==
    \E c \in Conns :
        /\ pc[c] = "forward"
        /\ fwdLog[c] = << >>
        /\ query_data[c] = Q1
        /\ segs[c] >= 2
        /\ inbuf[c] = Frame(Junk)

=============================================================================
